---------------------------- MODULE Spec2Model ----------------------------
(***************************************************************************)
(* A model of src/src/python_environment_select.rs: the discovery of       *)
(* Python environments (virtual environments under a worktree root and     *)
(* the environments `conda info --envs` reports) and the slash commands    *)
(* that expose it.                                                         *)
(*                                                                         *)
(* A string (String, &str, and the text of a PathBuf) is a sequence of     *)
(* characters, each a one-character TLA+ string; EAcute stands for one     *)
(* character whose UTF-8 encoding takes two bytes.  A PathBuf is the       *)
(* string it wraps.  The file system is the variable fs: a function from   *)
(* canonical paths (sequences of names, <<>> being "/") to nodes.  The     *)
(* process's working directory is "/", so a relative path names the same   *)
(* node as the absolute one.                                               *)
(***************************************************************************)
EXTENDS Naturals, Sequences, FiniteSets, TLC

VARIABLES fs, op, arg, ret

vars == <<fs, op, arg, ret>>

---------------------------------------------------------------------------
(* Bounds of the model. *)

\* The number of symbolic links the operating system follows while it
\* resolves one path before it fails with ELOOP (40 on Linux).
MaxHops == 2

\* The number of lines of a text handed to parse_conda_output.
MaxLines == 3

\* The number of arguments of a slash command.
MaxArgs == 2

---------------------------------------------------------------------------
(* String literals of the source, as character sequences. *)

EAcute == "U+00E9"

S_bin ==
    <<"b", "i", "n">>
S_activate ==
    <<"a", "c", "t", "i", "v", "a", "t", "e">>
S_pyvenv_cfg ==
    <<"p", "y", "v", "e", "n", "v", ".", "c", "f", "g">>
S_python ==
    <<"p", "y", "t", "h", "o", "n">>
S_ErrReadingPrefix ==
    <<"E", "r", "r", "o", "r", " ", "r", "e", "a", "d", "i", "n", "g", " ", "d", "i", "r", "e", "c", "t", "o", "r", "y", " ", "(">>
S_ErrReadingSep ==
    <<")", ":", " ">>
ENOENT ==
    <<"N", "o", " ", "s", "u", "c", "h", " ", "f", "i", "l", "e", " ", "o", "r", " ", "d", "i", "r", "e", "c", "t", "o", "r", "y", " ", "(", "o", "s", " ", "e", "r", "r", "o", "r", " ", "2", ")">>
EACCES ==
    <<"P", "e", "r", "m", "i", "s", "s", "i", "o", "n", " ", "d", "e", "n", "i", "e", "d", " ", "(", "o", "s", " ", "e", "r", "r", "o", "r", " ", "1", "3", ")">>
ENOTDIR ==
    <<"N", "o", "t", " ", "a", " ", "d", "i", "r", "e", "c", "t", "o", "r", "y", " ", "(", "o", "s", " ", "e", "r", "r", "o", "r", " ", "2", "0", ")">>
ELOOP ==
    <<"T", "o", "o", " ", "m", "a", "n", "y", " ", "l", "e", "v", "e", "l", "s", " ", "o", "f", " ", "s", "y", "m", "b", "o", "l", "i", "c", " ", "l", "i", "n", "k", "s", " ", "(", "o", "s", " ", "e", "r", "r", "o", "r", " ", "4", "0", ")">>
S_FailedToExecute ==
    <<"F", "a", "i", "l", "e", "d", " ", "t", "o", " ", "e", "x", "e", "c", "u", "t", "e", " ", "c", "o", "m", "m", "a", "n", "d", ":", " ">>
S_FailingCode ==
    <<"C", "o", "m", "m", "a", "n", "d", " ", "e", "x", "e", "c", "u", "t", "e", "d", " ", "w", "i", "t", "h", " ", "f", "a", "i", "l", "i", "n", "g", " ", "e", "r", "r", "o", "r", " ", "c", "o", "d", "e", ":", " ">>
S_pyenvcur ==
    <<"p", "y", "e", "n", "v", "c", "u", "r">>
S_pyenvlst ==
    <<"p", "y", "e", "n", "v", "l", "s", "t">>
S_pyenvselect ==
    <<"p", "y", "e", "n", "v", "s", "e", "l", "e", "c", "t">>
S_NothingToEcho ==
    <<"n", "o", "t", "h", "i", "n", "g", " ", "t", "o", " ", "e", "c", "h", "o">>
S_Echo ==
    <<"E", "c", "h", "o">>
S_PythonEnvironments ==
    <<"P", "y", "t", "h", "o", "n", " ", "E", "n", "v", "i", "r", "o", "n", "m", "e", "n", "t", "s">>
S_UnknownPrefix ==
    <<"u", "n", "k", "n", "o", "w", "n", " ", "s", "l", "a", "s", "h", " ", "c", "o", "m", "m", "a", "n", "d", ":", " ", "\"">>
S_Quote ==
    <<"\"">>
S_BannerPrefix ==
    <<"=", "=", "=", "=", "=", "=", "\n", " ">>
S_BannerSuffix ==
    <<" ", "=", "=", "=", "=", "=", "=">>
S_LenPrefix ==
    <<"\n", "l", "e", "n", ":", " ">>
S_ColumnGap ==
    <<" ", " ", " ", " ">>
S_Space ==
    <<" ">>
S_Newline ==
    <<"\n">>

---------------------------------------------------------------------------
(* Strings. *)

\* str::len: the length in bytes of the UTF-8 encoding.
ByteLen(s) ==
    Len(s) + Cardinality({i \in DOMAIN s : s[i] = EAcute})

\* str::starts_with.
StartsWith(s, prefix) ==
    /\ Len(prefix) <= Len(s)
    /\ SubSeq(s, 1, Len(prefix)) = prefix

\* The pieces of s between its separators, the characters of the set
\* chars (one piece more than there are separators).
SplitAt(s, chars) ==
    LET seps == {i \in DOMAIN s : s[i] \in chars}
        n == Cardinality(seps)
        \* The position of the k-th separator; 0 and Len(s) + 1 bound them.
        pos(k) == IF k = 0 THEN 0
                  ELSE IF k = n + 1 THEN Len(s) + 1
                  ELSE CHOOSE i \in seps :
                          Cardinality({j \in seps : j < i}) = k - 1
    IN  [k \in 1..(n + 1) |-> SubSeq(s, pos(k - 1) + 1, pos(k) - 1)]

\* The pieces of s between the occurrences of the character ch.
SplitOn(s, ch) == SplitAt(s, {ch})

\* [String]::join.
RECURSIVE JoinStrings(_, _)
JoinStrings(ss, sep) ==
    IF ss = <<>> THEN <<>>
    ELSE IF Len(ss) = 1 THEN Head(ss)
    ELSE Head(ss) \o sep \o JoinStrings(Tail(ss), sep)

---------------------------------------------------------------------------
(* Paths. *)

\* PathBuf::new().
PathBufNew == <<>>

\* Path::join with a relative or absolute component (PathBuf::push).
PathJoin(p, c) ==
    IF StartsWith(c, <<"/">>) THEN c
    ELSE IF p = <<>> THEN c
    ELSE IF p[Len(p)] = "/" THEN p \o c
    ELSE p \o <<"/">> \o c

\* Path::components, without the root: the names between the separators.
Components(p) ==
    SelectSeq(SplitOn(p, "/"), LAMBDA c : c # <<>> /\ c # <<".">>)

\* Path::file_name().unwrap(): the last name of the path.
FileName(p) ==
    LET cs == Components(p) IN cs[Len(cs)]

---------------------------------------------------------------------------
(* The file system, as the operating system answers. *)

\* The node a list of names leads to from the directory cur, following
\* symbolic links (at most MaxHops of them): stat(2).
RECURSIVE Walk(_, _, _)
Walk(cur, rest, hops) ==
    IF rest = <<>> THEN [ok |-> TRUE, node |-> cur, err |-> <<>>]
    ELSE LET next == Append(cur, Head(rest))
         IN  IF next \notin DOMAIN fs
             THEN [ok |-> FALSE, node |-> <<>>, err |-> ENOENT]
             ELSE IF fs[next].kind = "link"
             THEN IF hops >= MaxHops
                  THEN [ok |-> FALSE, node |-> <<>>, err |-> ELOOP]
                  ELSE Walk(<<>>, fs[next].target \o Tail(rest), hops + 1)
             ELSE IF fs[next].kind = "file" /\ Tail(rest) # <<>>
             THEN [ok |-> FALSE, node |-> <<>>, err |-> ENOTDIR]
             ELSE Walk(next, Tail(rest), hops)

\* fs::metadata(path).
Metadata(p) ==
    IF p = <<>> THEN [ok |-> FALSE, node |-> <<>>, err |-> ENOENT]
    ELSE Walk(<<>>, Components(p), 0)

\* Path::exists.
Exists(p) == Metadata(p).ok

\* Path::is_dir.
IsDir(p) ==
    LET m == Metadata(p) IN m.ok /\ fs[m.node].kind = "dir"

\* fs::read_dir(dir) and the entries its iterator yields (their names, in
\* the order the directory lists them).
ReadDir(p) ==
    LET m == Metadata(p)
    IN  IF ~m.ok THEN [ok |-> FALSE, entries |-> <<>>, err |-> m.err]
        ELSE IF fs[m.node].kind # "dir"
        THEN [ok |-> FALSE, entries |-> <<>>, err |-> ENOTDIR]
        ELSE IF ~fs[m.node].readable
        THEN [ok |-> FALSE, entries |-> <<>>, err |-> EACCES]
        ELSE [ok |-> TRUE, entries |-> fs[m.node].entries, err |-> <<>>]

---------------------------------------------------------------------------
(* PythonEnvironmentSelectExtension: the scanner. *)

PythonEnvironment(name, python_path) ==
    [name |-> name, python_path |-> python_path]

None == [some |-> FALSE, val |-> <<>>]

Some(v) == [some |-> TRUE, val |-> v]

\* is_venv, with only bin/activate looked at.
IsVenv_onlyActivate(path) ==
    Exists(PathJoin(PathJoin(path, S_bin), S_activate))

IsVenv(path) ==
    LET activate_script == PathJoin(PathJoin(path, S_bin), S_activate)
        pyvenv_cfg == PathJoin(path, S_pyvenv_cfg)
    IN  Exists(activate_script) \/ Exists(pyvenv_cfg)

\* find_python_executable, without the check that bin/python exists.
FindPythonExecutable_unchecked(venv_path) ==
    Some(PathJoin(PathJoin(venv_path, S_bin), S_python))

FindPythonExecutable(venv_path) ==
    LET python_path == PathJoin(PathJoin(venv_path, S_bin), S_python)
    IN  IF Exists(python_path) THEN Some(python_path) ELSE None

\* One call the scanner makes on the file system.
Event(what, path) == [what |-> what, path |-> path]

Scanned(venvs, trace) == [venvs |-> venvs, trace |-> trace]

\* The record of the Err arm, with the directory's path for interpreter.
DiagnosticRecord_withPath(dir, e) ==
    PythonEnvironment(S_ErrReadingPrefix \o dir \o S_ErrReadingSep \o e, dir)

\* The record the Err arm of find_venvs_rec pushes.
DiagnosticRecord(dir, e) ==
    PythonEnvironment(S_ErrReadingPrefix \o dir \o S_ErrReadingSep \o e,
                      PathBufNew)

RECURSIVE ScanRec(_)
RECURSIVE ScanEntries(_, _)
RECURSIVE ScanEntry(_)

\* The loop body, with the else arm on the inner if: an environment
\* without an interpreter is searched like any other directory.
ScanEntry_descend(path) ==
    IF IsDir(path)
    THEN LET py == FindPythonExecutable(path)
         IN  IF IsVenv(path) /\ py.some
             THEN Scanned(<<PythonEnvironment(FileName(path), py.val)>>,
                          <<Event("is_venv", path)>>)
             ELSE LET r == ScanRec(path)
                  IN  Scanned(r.venvs, <<Event("is_venv", path)>> \o r.trace)
    ELSE Scanned(<<>>, <<>>)

\* The body of the loop of find_venvs_rec for the entry at path.
ScanEntry(path) ==
    IF IsDir(path)
    THEN IF IsVenv(path)
         THEN LET py == FindPythonExecutable(path)
              IN  IF py.some
                  THEN Scanned(<<PythonEnvironment(FileName(path), py.val)>>,
                               <<Event("is_venv", path)>>)
                  ELSE Scanned(<<>>, <<Event("is_venv", path)>>)
         ELSE LET r == ScanRec(path)
              IN  Scanned(r.venvs, <<Event("is_venv", path)>> \o r.trace)
    ELSE Scanned(<<>>, <<>>)

\* The loop of find_venvs_rec over the entries of dir.
ScanEntries(dir, entries) ==
    IF entries = <<>> THEN Scanned(<<>>, <<>>)
    ELSE LET h == ScanEntry(PathJoin(dir, Head(entries)))
             t == ScanEntries(dir, Tail(entries))
         IN  Scanned(h.venvs \o t.venvs, h.trace \o t.trace)

\* find_venvs_rec, with the calls it makes on the file system: venvs is
\* what it returns, trace the read_dir and is_venv calls in order.
ScanRec(dir) ==
    LET rd == ReadDir(dir)
    IN  IF rd.ok
        THEN LET r == ScanEntries(dir, rd.entries)
             IN  Scanned(r.venvs, <<Event("read_dir", dir)>> \o r.trace)
        ELSE Scanned(<<DiagnosticRecord(dir, rd.err)>>,
                     <<Event("read_dir", dir)>>)

FindVenvsRec(dir) == ScanRec(dir).venvs

\* Worktree::root_path, then find_venvs_rec.
FindVenvsFromWorktree(worktree) ==
    LET root_path == worktree.root_path IN FindVenvsRec(root_path)

---------------------------------------------------------------------------
(* The reader of `conda info --envs` and the parser of its report. *)

Ok(v) == [ok |-> TRUE, val |-> v, err |-> <<>>]

Err(e) == [ok |-> FALSE, val |-> <<>>, err |-> e]

StripCr(line) ==
    IF line # <<>> /\ line[Len(line)] = "\r"
    THEN SubSeq(line, 1, Len(line) - 1)
    ELSE line

\* str::lines: the text cut after each "\n"; a line loses its "\n" and a
\* "\r" before it; no empty line follows a final "\n".
Lines(text) ==
    LET ps == SplitOn(text, "\n")
        n == Len(ps)
        terminated == [i \in 1..(n - 1) |-> StripCr(ps[i])]
    IN  IF ps[n] = <<>> THEN terminated ELSE Append(terminated, ps[n])

\* char::is_whitespace, for the characters of the model.
Whitespace == {" ", "\t", "\n", "\r", "\f"}

\* str::split_whitespace: the maximal runs of non-whitespace characters.
SplitWhitespace(s) ==
    SelectSeq(SplitAt(s, Whitespace), LAMBDA piece : piece # <<>>)

\* The header loop, without the break's line consumed: the first line that
\* does not start with '#' stays in the iterator.
RECURSIVE SkipHeader_keepBoundary(_)
SkipHeader_keepBoundary(lines) ==
    IF lines = <<>> THEN <<>>
    ELSE IF StartsWith(Head(lines), <<"#">>)
    THEN SkipHeader_keepBoundary(Tail(lines))
    ELSE lines

\* The header loop of parse_conda_output: what is left of the iterator
\* after `while let Some(line) = lines.next()`.
RECURSIVE SkipHeader(_)
SkipHeader(lines) ==
    IF lines = <<>> THEN <<>>
    ELSE IF StartsWith(Head(lines), <<"#">>) THEN SkipHeader(Tail(lines))
    ELSE Tail(lines)

\* The loop of parse_conda_output over the environment lines.
RECURSIVE ParseLines(_)
ParseLines(lines) ==
    IF lines = <<>> THEN <<>>
    ELSE LET parts == SplitWhitespace(Head(lines))
             rest == ParseLines(Tail(lines))
         IN  IF Len(parts) >= 2
             THEN LET env_path == parts[2]
                      py == FindPythonExecutable(env_path)
                  IN  IF py.some
                      THEN <<PythonEnvironment(parts[1], py.val)>> \o rest
                      ELSE rest
             ELSE rest

ParseCondaOutput(output) ==
    Ok(ParseLines(SkipHeader(Lines(output))))

\* find_envs_from_conda, with the exit status not looked at.
FindEnvsFromConda_anyStatus(conda) ==
    IF ~conda.launched THEN Err(S_FailedToExecute \o ENOENT)
    ELSE ParseCondaOutput(conda.stdout)

\* find_envs_from_conda; conda is what Command::output gives: whether the
\* command was launched, its exit status, its stdout and its stderr.
FindEnvsFromConda(conda) ==
    IF ~conda.launched THEN Err(S_FailedToExecute \o ENOENT)
    ELSE IF ~conda.success THEN Err(S_FailingCode \o conda.stderr)
    ELSE ParseCondaOutput(conda.stdout)

GetAllPythonEnvironments(worktree, conda) ==
    LET from_worktree ==
            IF worktree.some THEN FindVenvsFromWorktree(worktree.val)
            ELSE <<>>
        conda_envs == FindEnvsFromConda(conda)
    IN  from_worktree \o (IF conda_envs.ok THEN conda_envs.val ELSE <<>>)

---------------------------------------------------------------------------
(* impl zed::Extension: the slash commands. *)

\* A Result<SlashCommandOutput, String>; discovered tells whether
\* get_all_python_environments was called.
Output(text, label, discovered) ==
    [ok |-> TRUE, text |-> text,
     sections |-> <<[range |-> <<0, ByteLen(text)>>, label |-> label]>>,
     err |-> <<>>, discovered |-> discovered]

Failure(e) ==
    [ok |-> FALSE, text |-> <<>>, sections |-> <<>>, err |-> e,
     discovered |-> FALSE]

UnknownCommand(command) ==
    S_UnknownPrefix \o command \o S_Quote

\* The match of complete_slash_command_argument, pyenvlst's arm for `_`.
CompleteSlashCommandArgument_catchAll(command, args) ==
    Ok(<<>>)

CompleteSlashCommandArgument(command, args) ==
    IF command = S_pyenvcur THEN Ok(<<>>)
    ELSE IF command = S_pyenvlst THEN Ok(<<>>)
    ELSE IF command = S_pyenvselect THEN Ok(<<>>)
    ELSE Err(UnknownCommand(command))

\* The arms of pyenvcur and pyenvselect.
Echo(args) ==
    IF args = <<>> THEN Failure(S_NothingToEcho)
    ELSE Output(JoinStrings(args, S_Space), S_Echo, FALSE)

Spaces(n) == [i \in 1..n |-> " "]

\* usize's Display: the decimal digits of n.
RECURSIVE ToDecimal(_)
ToDecimal(n) ==
    LET digit == <<"0", "1", "2", "3", "4", "5", "6", "7", "8", "9">>
    IN  IF n < 10 THEN <<digit[n + 1]>>
        ELSE ToDecimal(n \div 10) \o <<digit[(n % 10) + 1]>>

\* all_envs.iter().map(|env| env.name.len()).max().unwrap_or(0)
RECURSIVE MaxNameLength(_)
MaxNameLength(envs) ==
    IF envs = <<>> THEN 0
    ELSE LET h == ByteLen(Head(envs).name)
             t == MaxNameLength(Tail(envs))
         IN  IF h >= t THEN h ELSE t

\* format!("{:<width$}    {}", ...) with the name padded on the left.
FormatEnv_rightAligned(env, width) ==
    LET n == Len(env.name)
    IN  (IF n < width THEN Spaces(width - n) ELSE <<>>) \o env.name
            \o S_ColumnGap \o env.python_path

\* format!("{:<width$}    {}", env.name, env.python_path.display()): the
\* name is padded with spaces to width characters.
FormatEnv(env, width) ==
    LET n == Len(env.name)
    IN  env.name \o (IF n < width THEN Spaces(width - n) ELSE <<>>)
            \o S_ColumnGap \o env.python_path

\* The count line, one short.
CountLine_offByOne(all_envs) ==
    S_LenPrefix \o ToDecimal(IF all_envs = <<>> THEN 0 ELSE Len(all_envs) - 1)

\* The text format!("{}\nlen: {}", text, all_envs.len()) adds.
CountLine(all_envs) ==
    S_LenPrefix \o ToDecimal(Len(all_envs))

\* The text of the pyenvlst arm.
Render(all_envs) ==
    LET max_name_length == MaxNameLength(all_envs)
        formatted_envs ==
            [i \in 1..Len(all_envs) |-> FormatEnv(all_envs[i], max_name_length)]
        text == JoinStrings(formatted_envs, S_Newline)
    IN  (S_BannerPrefix \o text \o S_BannerSuffix) \o CountLine(all_envs)

RunSlashCommand(command, args, worktree, conda) ==
    IF command = S_pyenvcur THEN Echo(args)
    ELSE IF command = S_pyenvlst
    THEN LET all_envs == GetAllPythonEnvironments(worktree, conda)
         IN  Output(Render(all_envs), S_PythonEnvironments, TRUE)
    ELSE IF command = S_pyenvselect THEN Echo(args)
    ELSE Failure(UnknownCommand(command))

---------------------------------------------------------------------------
(* The file systems, reports and calls the model runs the code on. *)

S_w == <<"w">>
S_a == <<"a">>
S_b == <<"b">>
S_c == <<"c">>

P_w == <<"/", "w">>
P_wa == <<"/", "w", "/", "a">>
P_x == <<"/", "x">>

DirNode(entries, readable) ==
    [kind |-> "dir", entries |-> entries, readable |-> readable,
     target |-> <<>>]

FileNode ==
    [kind |-> "file", entries |-> <<>>, readable |-> TRUE, target |-> <<>>]

LinkNode(target) ==
    [kind |-> "link", entries |-> <<>>, readable |-> TRUE, target |-> target]

NoNodes == [p \in {} |-> FileNode]

\* What a directory of a tree is: absent, a symbolic link to target, or a
\* directory with or without pyvenv.cfg, bin/activate and bin/python, that
\* can be listed or not.
Absent ==
    [k |-> "absent", cfg |-> FALSE, act |-> FALSE, py |-> FALSE, rd |-> TRUE,
     target |-> <<>>]

Link(target) ==
    [k |-> "link", cfg |-> FALSE, act |-> FALSE, py |-> FALSE, rd |-> TRUE,
     target |-> target]

Dirs ==
    [k : {"dir"}, cfg : BOOLEAN, act : BOOLEAN, py : BOOLEAN, rd : BOOLEAN,
     target : {<<>>}]

PlainDir ==
    [k |-> "dir", cfg |-> FALSE, act |-> FALSE, py |-> FALSE, rd |-> TRUE,
     target |-> <<>>]

\* The nodes of the directory d at the canonical path p, with the
\* subdirectories subs (names, in listing order).
Nodes(p, d, subs) ==
    IF d.k = "absent" THEN NoNodes
    ELSE IF d.k = "link" THEN p :> LinkNode(d.target)
    ELSE LET bin == Append(p, S_bin)
         IN  (p :> DirNode((IF d.cfg THEN <<S_pyvenv_cfg>> ELSE <<>>)
                             \o (IF d.act \/ d.py THEN <<S_bin>> ELSE <<>>)
                             \o subs,
                           d.rd))
             @@ (IF d.cfg THEN Append(p, S_pyvenv_cfg) :> FileNode
                 ELSE NoNodes)
             @@ (IF d.act \/ d.py
                 THEN bin :> DirNode((IF d.act THEN <<S_activate>> ELSE <<>>)
                                       \o (IF d.py THEN <<S_python>> ELSE <<>>),
                                     TRUE)
                 ELSE NoNodes)
             @@ (IF d.act THEN Append(bin, S_activate) :> FileNode
                 ELSE NoNodes)
             @@ (IF d.py THEN Append(bin, S_python) :> FileNode ELSE NoNodes)

Present(d, name) == IF d.k = "absent" THEN <<>> ELSE <<name>>

\* The file system with /w (w), /w/a (a), /w/a/c (c) and /w/b (b); aFirst
\* tells whether /w lists a before b.
Tree(w, a, c, b, aFirst) ==
    (<<>> :> DirNode(<<S_w>>, TRUE))
    @@ Nodes(<<S_w>>, w,
             IF aFirst THEN Present(a, S_a) \o Present(b, S_b)
             ELSE Present(b, S_b) \o Present(a, S_a))
    @@ Nodes(<<S_w, S_a>>, a, Present(c, S_c))
    @@ (IF a.k = "dir" THEN Nodes(<<S_w, S_a, S_c>>, c, <<>>) ELSE NoNodes)
    @@ Nodes(<<S_w, S_b>>, b, <<>>)

\* Trees for the scanner: every marker, interpreter and permission on a, c
\* and b; b may also link to /w, to /w/a or to /w/a/c; /w itself may be an
\* environment or unreadable.
ScanTrees ==
    { Tree(w, a, c, b, aFirst) :
        w \in {d \in Dirs : ~d.act /\ (d.cfg = d.py) /\ (d.rd \/ ~d.cfg)},
        a \in {Absent} \cup {d \in Dirs : ~(d.cfg /\ d.act)},
        c \in {Absent} \cup {d \in Dirs : ~(d.cfg /\ d.act) /\ d.rd},
        b \in {Absent, Link(<<S_w>>), Link(<<S_w, S_a>>),
                Link(<<S_w, S_a, S_c>>)}
                \cup {d \in Dirs : ~(d.cfg /\ d.act)},
        aFirst \in BOOLEAN }

ScanRoots == {P_w, P_wa, P_x}

NoWorktree == [some |-> FALSE, val |-> [root_path |-> <<>>]]

SomeWorktree(root_path) == [some |-> TRUE, val |-> [root_path |-> root_path]]

NoConda == [launched |-> TRUE, success |-> TRUE, stdout |-> <<>>,
            stderr |-> <<>>]

NoArg ==
    [dir |-> <<>>, output |-> <<>>, worktree |-> NoWorktree, conda |-> NoConda,
     command |-> <<>>, args |-> <<>>]

NoRet ==
    [venvs |-> <<>>, trace |-> <<>>, ok |-> TRUE, err |-> <<>>, text |-> <<>>,
     sections |-> <<>>, completions |-> <<>>, discovered |-> FALSE]

---------------------------------------------------------------------------
(* The scanner on its own. *)

InitScan ==
    /\ fs \in ScanTrees
    /\ op = "new"
    /\ arg \in {[NoArg EXCEPT !.dir = dir] : dir \in ScanRoots}
    /\ ret = NoRet

\* A call of find_venvs_rec(arg.dir).
FindVenvsRecCall ==
    /\ op = "new"
    /\ op' = "find_venvs_rec"
    /\ ret' = LET r == ScanRec(arg.dir)
              IN  [NoRet EXCEPT !.venvs = r.venvs, !.trace = r.trace]
    /\ UNCHANGED <<fs, arg>>

NextScan == FindVenvsRecCall

SpecScan == InitScan /\ [][NextScan]_vars

---------------------------------------------------------------------------
(* What the claims about the scanner speak of, read off the file system. *)

\* The canonical path of the scanned root (the roots hold no link).
RootNode == Components(arg.dir)

IsPrefix(p, q) == Len(p) <= Len(q) /\ SubSeq(q, 1, Len(p)) = p

\* The directories of the tree under the scanned root, the root included.
TreeDirs ==
    {n \in DOMAIN fs : fs[n].kind = "dir" /\ IsPrefix(RootNode, n)}

HasCfg(n) == Append(n, S_pyvenv_cfg) \in DOMAIN fs

HasActivate(n) == Append(Append(n, S_bin), S_activate) \in DOMAIN fs

HasPython(n) == Append(Append(n, S_bin), S_python) \in DOMAIN fs

CfgMarked == {n \in TreeDirs : HasCfg(n)}

\* True when some node under the scanned root is a symbolic link.
TreeHasLink ==
    \E n \in DOMAIN fs : fs[n].kind = "link" /\ IsPrefix(RootNode, n)

\* The path string of the tree's node n: the root's string, then the names
\* below the root, each after a "/".
RECURSIVE Slashed(_)
Slashed(names) ==
    IF names = <<>> THEN <<>>
    ELSE <<"/">> \o Head(names) \o Slashed(Tail(names))

PathString(n) ==
    arg.dir \o Slashed(SubSeq(n, Len(RootNode) + 1, Len(n)))

PythonOf(n) == PathString(n) \o Slashed(<<S_bin, S_python>>)

\* The strict ancestors of n in the tree, the root included.
AncestorsInTree(n) ==
    {SubSeq(n, 1, k) : k \in Len(RootNode)..(Len(n) - 1)}

Indices(seq, Test(_)) == {i \in DOMAIN seq : Test(seq[i])}

ScanDone == op = "find_venvs_rec"

\* The tree holds exactly one pyvenv.cfg-marked directory, and it has a
\* bin/python.
OneCfgEnvironment ==
    /\ ScanDone
    /\ RootNode \in DOMAIN fs
    /\ Cardinality(CfgMarked) = 1
    /\ \A n \in CfgMarked : HasPython(n)

TheCfgEnvironment == CHOOSE n \in CfgMarked : TRUE

\* C1, as stated: for every directory tree that contains exactly one
\* pyvenv.cfg-marked directory, which has a bin/python file, the scan of the
\* tree's root returns exactly one record, and its interpreter_path is the
\* path of that bin/python.  (Stated for the trees without symbolic links,
\* so that what refutes it is not the scanner following links.)
C1_ExactlyOneRecord ==
    (OneCfgEnvironment /\ ~TreeHasLink)
        => /\ Len(ret.venvs) = 1
           /\ ret.venvs[1].python_path = PythonOf(TheCfgEnvironment)

\* The scan reaches the one pyvenv.cfg-marked directory: it lies strictly
\* below the root, and every directory from the root down to its parent can
\* be listed and, below the root, is no environment itself.
CfgEnvironmentReached ==
    /\ OneCfgEnvironment
    /\ TheCfgEnvironment # RootNode
    /\ \A n \in AncestorsInTree(TheCfgEnvironment) :
          /\ fs[n].readable
          /\ n # RootNode => ~HasActivate(n)

\* C1, amended: when the tree holds exactly one pyvenv.cfg-marked directory
\* D, D has a bin/python file, D lies strictly below the scanned root, and
\* every directory from the root down to D's parent can be listed and (the
\* root aside) holds no bin/activate, then exactly one record of the scan
\* has D's bin/python for interpreter_path, and it is named after D.
C1_OneRecordForTheEnvironment ==
    CfgEnvironmentReached
        => LET D == TheCfgEnvironment
               hits == Indices(ret.venvs,
                               LAMBDA r : r.python_path = PythonOf(D))
           IN  /\ Cardinality(hits) = 1
               /\ \A i \in hits : ret.venvs[i].name = D[Len(D)]

\* C1's case: the one pyvenv.cfg-marked directory is /w/a/c, the scan of /w
\* reports it, and reports more than it.
C1_Witness ==
    /\ CfgEnvironmentReached
    /\ arg.dir = P_w
    /\ TheCfgEnvironment = <<S_w, S_a, S_c>>
    /\ Len(ret.venvs) > 1
    /\ \E i \in DOMAIN ret.venvs :
          ret.venvs[i].python_path = PythonOf(TheCfgEnvironment)

\* The node a path string of the trace names.
NodeOf(path) == Metadata(path).node

Marked(n) == HasCfg(n) \/ HasActivate(n)

Under(path, dir) == StartsWith(path, dir \o <<"/">>)

TraceEvents == {ret.trace[i] : i \in DOMAIN ret.trace}

Records == {ret.venvs[i] : i \in DOMAIN ret.venvs}

\* The directories the scan classified as environments without bin/python.
EmptyEnvironments ==
    {e.path : e \in {t \in TraceEvents :
                        /\ t.what = "is_venv"
                        /\ Marked(NodeOf(t.path))
                        /\ ~HasPython(NodeOf(t.path))}}

\* C2: a directory the scan classifies as an environment (bin/activate or
\* pyvenv.cfg) that has no bin/python contributes no record and is not
\* descended into: it is not listed, nothing beneath it is listed or
\* classified, and no record lies beneath it.
C2_EmptyEnvironmentNotDescended ==
    ScanDone =>
        \A p \in EmptyEnvironments :
            /\ \A e \in TraceEvents :
                  /\ ~Under(e.path, p)
                  /\ e.what = "read_dir" => e.path # p
            /\ \A r \in Records :
                  /\ ~Under(r.python_path, p)
                  /\ ~StartsWith(r.name, S_ErrReadingPrefix \o p)

\* C2's case: /w/a is marked and has no bin/python, /w/a/c beneath it is a
\* whole environment, /w was scanned and /w/a classified.
C2_Witness ==
    /\ ScanDone
    /\ arg.dir = P_w
    /\ P_wa \in EmptyEnvironments
    /\ <<S_w, S_a, S_c>> \in DOMAIN fs
    /\ HasCfg(<<S_w, S_a, S_c>>)
    /\ HasPython(<<S_w, S_a, S_c>>)

\* The paths the scan tried to list and could not.
Unlistable(path) ==
    LET m == Metadata(path)
    IN  ~m.ok \/ fs[m.node].kind # "dir" \/ ~fs[m.node].readable

FailedListings ==
    {e.path : e \in {t \in TraceEvents :
                        t.what = "read_dir" /\ Unlistable(t.path)}}

ErrorTexts == {ENOENT, EACCES, ENOTDIR, ELOOP}

IsDiagnosticFor(r, path) ==
    \E e \in ErrorTexts :
        r.name = S_ErrReadingPrefix \o path \o S_ErrReadingSep \o e

\* The entries next to the failed listing at path d/x: the directories d/y
\* the same listing of d yields.
SiblingsScanned ==
    \A d \in {e.path : e \in {t \in TraceEvents : t.what = "read_dir"}} :
        Unlistable(d) \/
        LET names == fs[NodeOf(d)].entries
        IN  \A i, j \in DOMAIN names :
                LET x == d \o <<"/">> \o names[i]
                    y == d \o <<"/">> \o names[j]
                    n == NodeOf(y)
                IN  (x \in FailedListings /\ Metadata(y).ok
                        /\ fs[n].kind = "dir")
                    => /\ [what |-> "is_venv", path |-> y] \in TraceEvents
                       /\ (Marked(n) /\ HasPython(n))
                            => \E r \in Records :
                                  r.python_path
                                      = y \o Slashed(<<S_bin, S_python>>)
                       /\ ~Marked(n)
                            => [what |-> "read_dir", path |-> y]
                                    \in TraceEvents

\* C3: each directory the scan cannot list yields exactly one diagnostic
\* record (its name holds the directory's path and the error's text, its
\* interpreter_path is empty), the scan still returns its records, and the
\* directories next to the unreadable one are scanned and their
\* environments reported.
C3_UnreadableDirectoryIsOneDiagnostic ==
    ScanDone =>
        /\ \A p \in FailedListings :
              /\ Cardinality(Indices(ret.venvs,
                                     LAMBDA r : IsDiagnosticFor(r, p))) = 1
              /\ \A r \in Records :
                    IsDiagnosticFor(r, p) => r.python_path = <<>>
        /\ Cardinality(Indices(ret.venvs, LAMBDA r : r.python_path = <<>>))
              = Cardinality(FailedListings)
        /\ SiblingsScanned

\* C3's case: /w lists a before b, /w/a cannot be listed, /w/b is an
\* environment with bin/python, and the scan of /w reports both.
C3_Witness ==
    /\ ScanDone
    /\ arg.dir = P_w
    /\ fs[<<S_w>>].entries = <<S_a, S_b>>
    /\ P_wa \in FailedListings
    /\ Len(ret.venvs) = 2
    /\ ret.venvs[1].python_path = <<>>
    /\ ret.venvs[2].name = S_b

\* C10, its safety half: the scan classifies and lists true subdirectories
\* only, so no path it classifies or lists runs through a symbolic link.
C10_NoLinkTraversed ==
    ScanDone =>
        \A e \in TraceEvents :
            LET cs == Components(e.path)
            IN  \A k \in 1..Len(cs) :
                    SubSeq(cs, 1, k) \in DOMAIN fs
                        => fs[SubSeq(cs, 1, k)].kind # "link"

---------------------------------------------------------------------------
(* The report parser on its own. *)

P_wb == <<"/", "w", "/", "b">>

\* Lines of a report: empty, headers, a column-title line, environments
\* (two tokens, more, one; a trailing "/"; the active environment's "*";
\* a tab and a "\r"), and lines with a '#' after the header.
LinePool ==
    { <<>>,
      <<"#">>,
      <<"#", " ", "h">>,
      <<"N", " ", "P">>,
      <<"x", " ">> \o P_wa,
      <<"l", "o", "n", "g", "n", "a", "m", "e", " ", " ">> \o P_wb
          \o <<" ", "e">>,
      <<"y", " ", "*", " ">> \o P_wa,
      <<"s">>,
      <<" ", "#", "c", " ">> \o P_wa \o <<"/">>,
      <<"#", "d", "\t">> \o P_wb \o <<"\r">> }

\* The texts of at most n lines of pool, joined by "\n".
TextsOf(pool, n) ==
    { JoinStrings(ls, S_Newline) :
        ls \in UNION {[1..k -> pool] : k \in 0..n} }

\* /w with the directories a and b, each with or without bin/python.
ParseTrees ==
    { Tree(PlainDir, a, Absent, b, TRUE) :
        a, b \in {d \in Dirs : ~d.cfg /\ ~d.act /\ d.rd} }

InitParse ==
    /\ fs \in ParseTrees
    /\ op = "new"
    /\ arg \in {[NoArg EXCEPT !.output = text] :
                   text \in TextsOf(LinePool, MaxLines)}
    /\ ret = NoRet

\* A call of parse_conda_output(arg.output).
ParseCondaOutputCall ==
    /\ op = "new"
    /\ op' = "parse_conda_output"
    /\ ret' = LET r == ParseCondaOutput(arg.output)
              IN  [NoRet EXCEPT !.ok = r.ok, !.venvs = r.val, !.err = r.err]
    /\ UNCHANGED <<fs, arg>>

NextParse == ParseCondaOutputCall

SpecParse == InitParse /\ [][NextParse]_vars

IsHeader(line) == line # <<>> /\ line[1] = "#"

\* The index of the first line that is no header (one past the end when
\* every line is one).
Boundary(ls) ==
    IF \A i \in DOMAIN ls : IsHeader(ls[i]) THEN Len(ls) + 1
    ELSE CHOOSE i \in DOMAIN ls :
            /\ ~IsHeader(ls[i])
            /\ \A j \in 1..(i - 1) : IsHeader(ls[j])

IsAbsolute(p) == p # <<>> /\ p[1] = "/"

\* Path's equality: the same components.
SamePath(p, q) ==
    Components(p) = Components(q) /\ (IsAbsolute(p) <=> IsAbsolute(q))

\* True when line yields a record: two tokens or more, and the file
\* <token 1>/bin/python is there.
YieldsRecord(line) ==
    LET parts == SplitWhitespace(line)
    IN  /\ Len(parts) >= 2
        /\ (Components(parts[2]) \o <<S_bin, S_python>>) \in DOMAIN fs

\* C4: parse never returns an error and returns, for the lines after the
\* header lines and the one line that follows them, in input order, one
\* record {token 0, <token 1>/bin/python} for each line of two tokens or
\* more whose <token 1>/bin/python exists, and nothing else.
C4_ParseGrammar ==
    op = "parse_conda_output" =>
        LET ls == Lines(arg.output)
            data == SubSeq(ls, Boundary(ls) + 1, Len(ls))
            kept == SelectSeq(data, YieldsRecord)
        IN  /\ ret.ok
            /\ Len(ret.venvs) = Len(kept)
            /\ \A i \in DOMAIN kept :
                  LET parts == SplitWhitespace(kept[i])
                  IN  /\ ret.venvs[i].name = parts[1]
                      /\ SamePath(ret.venvs[i].python_path,
                                  parts[2] \o <<"/">> \o S_bin \o <<"/">>
                                      \o S_python)

\* C4's case: a header line, the line after it, and an environment line
\* with a third token, which gives one record.
C4_Witness ==
    /\ op = "parse_conda_output"
    /\ Lines(arg.output)
          = << <<"#", " ", "h">>, <<"N", " ", "P">>,
               <<"l", "o", "n", "g", "n", "a", "m", "e", " ", " ">> \o P_wb
                   \o <<" ", "e">> >>
    /\ Len(ret.venvs) = 1
    /\ ret.venvs[1].name = <<"l", "o", "n", "g", "n", "a", "m", "e">>

---------------------------------------------------------------------------
(* The aggregator. *)

\* Trees for discovery: /w with a (absent, unreadable, or an environment
\* with or without bin/python) and b (absent, plain, an environment, or a
\* link to /w), no /w/a/c.
DiscoverTrees ==
    { Tree(PlainDir, a, Absent, b, aFirst) :
        a \in {Absent} \cup {d \in Dirs : (d.cfg \/ d.act) = d.rd
                                            /\ ~(d.cfg /\ d.act)
                                            /\ (d.py => d.rd)},
        b \in {Absent, Link(<<S_w>>)}
                \cup {d \in Dirs : ~d.act /\ d.rd /\ (d.cfg = d.py)},
        aFirst \in BOOLEAN }

Worktrees == {NoWorktree, SomeWorktree(P_w), SomeWorktree(P_x)}

\* Reports of the environment manager.
Reports ==
    TextsOf({ <<"#", " ", "h">>,
              <<"x", " ">> \o P_wa,
              <<EAcute, EAcute, " ">> \o P_wb }, MaxLines)

\* What running `conda info --envs` gives: it cannot be launched, it exits
\* with a failure (whatever it wrote), or it exits with success.
CondaOutcomes ==
    { [launched |-> FALSE, success |-> FALSE, stdout |-> <<>>,
       stderr |-> <<>>] }
    \cup [launched : {TRUE}, success : {FALSE},
          stdout : {<<>>, <<"x", " ">> \o P_wa \o S_Newline \o <<"x", " ">>
                                \o P_wa},
          stderr : {<<>>, <<"e">>}]
    \cup [launched : {TRUE}, success : {TRUE}, stdout : Reports,
          stderr : {<<>>}]

InitDiscover ==
    /\ fs \in DiscoverTrees
    /\ op = "new"
    /\ arg \in {[NoArg EXCEPT !.worktree = worktree, !.conda = conda] :
                   worktree \in Worktrees, conda \in CondaOutcomes}
    /\ ret = NoRet

\* A call of get_all_python_environments(arg.worktree), the command
\* `conda info --envs` ending as arg.conda tells.
GetAllPythonEnvironmentsCall ==
    /\ op = "new"
    /\ op' = "get_all_python_environments"
    /\ ret' = [NoRet EXCEPT
                 !.venvs = GetAllPythonEnvironments(arg.worktree, arg.conda)]
    /\ UNCHANGED <<fs, arg>>

NextDiscover == GetAllPythonEnvironmentsCall

SpecDiscover == InitDiscover /\ [][NextDiscover]_vars

DiscoverDone == op = "get_all_python_environments"

\* The scanner's records for the call's worktree, the parser's for the
\* command's report.
ScannerRecords ==
    IF arg.worktree.some THEN FindVenvsRec(arg.worktree.val.root_path)
    ELSE <<>>

ParserRecords == ParseCondaOutput(arg.conda.stdout).val

CondaFailed == ~arg.conda.launched \/ ~arg.conda.success

\* C5: discover returns the scanner's records (none without a project root)
\* followed by the parser's records, each group in its order, nothing
\* removed, merged or reordered; when the command cannot be launched or
\* exits non-zero, the result is the scanner's records alone.
C5_ScannerThenParser ==
    DiscoverDone =>
        /\ ret.venvs = ScannerRecords
                         \o (IF CondaFailed THEN <<>> ELSE ParserRecords)
        /\ CondaFailed => ret.venvs = ScannerRecords
        /\ ~arg.worktree.some
              => ret.venvs = (IF CondaFailed THEN <<>> ELSE ParserRecords)

\* C5's case: the command exits non-zero after writing a report that names
\* an environment, the worktree holds environments, and discovery returns
\* the scanner's records alone.
C5_Witness ==
    /\ DiscoverDone
    /\ arg.worktree.some
    /\ arg.conda.launched
    /\ ~arg.conda.success
    /\ ParserRecords # <<>>
    /\ ScannerRecords # <<>>
    /\ ret.venvs = ScannerRecords

EndsWith(s, suffix) ==
    /\ Len(suffix) <= Len(s)
    /\ SubSeq(s, Len(s) - Len(suffix) + 1, Len(s)) = suffix

IsDiagnosticName(name) == StartsWith(name, S_ErrReadingPrefix)

\* C6: in what discover returns, a record whose name is a diagnostic
\* message has an empty interpreter_path, every other record has an
\* interpreter_path <directory>/bin/python that exists, and so an empty
\* interpreter_path tells the diagnostic records from the others.
C6_EmptyPathIffDiagnostic ==
    DiscoverDone =>
        \A i \in DOMAIN ret.venvs :
            LET r == ret.venvs[i]
            IN  /\ IsDiagnosticName(r.name) <=> r.python_path = <<>>
                /\ ~IsDiagnosticName(r.name)
                      => /\ EndsWith(r.python_path,
                                     Slashed(<<S_bin, S_python>>))
                         /\ Len(r.python_path) > Len(S_bin) + Len(S_python) + 2
                         /\ Exists(r.python_path)

\* C6's case: discovery returned a diagnostic record, then an environment
\* of the worktree, then one of the report.
C6_Witness ==
    /\ DiscoverDone
    /\ Len(ret.venvs) >= 3
    /\ ret.venvs[1].python_path = <<>>
    /\ IsDiagnosticName(ret.venvs[1].name)
    /\ ret.venvs[2].python_path = P_wb \o Slashed(<<S_bin, S_python>>)
    /\ ret.venvs[Len(ret.venvs)].name = <<EAcute, EAcute>>

---------------------------------------------------------------------------
(* The slash commands. *)

\* Trees for the commands: /w with a (an environment or unreadable) and b
\* (absent or an environment).
CommandTrees ==
    { Tree(PlainDir, a, Absent, b, TRUE) :
        a \in {d \in Dirs : ~d.act /\ d.cfg = d.rd /\ d.py = d.rd},
        b \in {Absent} \cup {d \in Dirs : d.cfg /\ ~d.act /\ d.py /\ d.rd} }

CommandNames ==
    { S_pyenvcur, S_pyenvlst, S_pyenvselect, <<>>, <<"p", "y", "e", "n", "v">>,
      S_pyenvlst \o <<"2">> }

KnownCommands == {S_pyenvcur, S_pyenvlst, S_pyenvselect}

ArgLists ==
    UNION {[1..k -> {<<"a">>, <<"b", " ", "c">>}] : k \in 0..MaxArgs}

CommandReports ==
    { <<>>,
      <<"#">> \o S_Newline \o <<"N">> \o S_Newline \o <<"x", " ">> \o P_wb
          \o S_Newline
          \o <<"l", "o", "n", "g", "n", "a", "m", "e", " ">> \o P_wb,
      <<"#">> \o S_Newline \o <<"N">> \o S_Newline
          \o <<EAcute, EAcute, " ">> \o P_wb \o S_Newline
          \o <<"x", "y", "z", " ">> \o P_wb }

CommandCondaOutcomes ==
    { [launched |-> FALSE, success |-> FALSE, stdout |-> <<>>,
       stderr |-> <<>>] }
    \cup [launched : {TRUE}, success : {TRUE}, stdout : CommandReports,
          stderr : {<<>>}]

InitCommand ==
    /\ fs \in CommandTrees
    /\ op = "new"
    /\ arg \in {[NoArg EXCEPT !.command = command, !.args = args,
                              !.worktree = worktree, !.conda = conda] :
                   command \in CommandNames, args \in ArgLists,
                   worktree \in {NoWorktree, SomeWorktree(P_w)},
                   conda \in CommandCondaOutcomes}
    /\ ret = NoRet

\* A call of run_slash_command(arg.command, arg.args, arg.worktree).
RunSlashCommandCall ==
    /\ op = "new"
    /\ op' = "run_slash_command"
    /\ ret' = LET r == RunSlashCommand(arg.command, arg.args, arg.worktree,
                                       arg.conda)
              IN  [NoRet EXCEPT !.ok = r.ok, !.text = r.text,
                                !.sections = r.sections, !.err = r.err,
                                !.discovered = r.discovered]
    /\ UNCHANGED <<fs, arg>>

\* A call of complete_slash_command_argument(arg.command, arg.args).
CompleteSlashCommandArgumentCall ==
    /\ op = "new"
    /\ op' = "complete_slash_command_argument"
    /\ ret' = LET r == CompleteSlashCommandArgument(arg.command, arg.args)
              IN  [NoRet EXCEPT !.ok = r.ok, !.completions = r.val,
                                !.err = r.err]
    /\ UNCHANGED <<fs, arg>>

NextCommand == RunSlashCommandCall \/ CompleteSlashCommandArgumentCall

SpecCommand == InitCommand /\ [][NextCommand]_vars

\* pyenvlst has run; the records it rendered.
Listed == op = "run_slash_command" /\ arg.command = S_pyenvlst

ListedRecords == GetAllPythonEnvironments(arg.worktree, arg.conda)

Max(S) == CHOOSE x \in S : \A y \in S : y <= x

\* The widest name, as String::len measures it (0 without records).
NameWidth ==
    Max({0} \cup {ByteLen(ListedRecords[i].name) : i \in DOMAIN ListedRecords})

\* The rendered text between the banner's prefix and its suffix.
DataBlock ==
    SubSeq(ret.text, Len(S_BannerPrefix) + 1,
           Len(ret.text) - Len(CountLine(ListedRecords)) - Len(S_BannerSuffix))

S_EmptyRender ==
    <<"=", "=", "=", "=", "=", "=", "\n", " ", " ", "=", "=", "=", "=", "=", "=", "\n", "l", "e", "n", ":", " ", "0">>

\* The number a string of decimal digits writes.
RECURSIVE ParseDecimal(_)
ParseDecimal(digits) ==
    LET value(c) == CHOOSE d \in 0..9 :
                       <<"0", "1", "2", "3", "4", "5", "6", "7", "8", "9">>[d + 1]
                           = c
    IN  IF digits = <<>> THEN 0
        ELSE 10 * ParseDecimal(SubSeq(digits, 1, Len(digits) - 1))
                + value(digits[Len(digits)])

\* C8: render of no record is the banner's prefix and suffix with nothing
\* between them and a count line of 0; in general the text starts with the
\* prefix, and ends with the suffix and a last line "len: n", n the number
\* of records.
C8_BannerAndCount ==
    Listed =>
        LET newlines == {i \in DOMAIN ret.text : ret.text[i] = "\n"}
            last == Max(newlines)
            count == SubSeq(ret.text, last + Len(S_LenPrefix), Len(ret.text))
        IN  /\ ret.ok
            /\ ListedRecords = <<>> => ret.text = S_EmptyRender
            /\ StartsWith(ret.text, S_BannerPrefix)
            /\ EndsWith(SubSeq(ret.text, 1, last - 1), S_BannerSuffix)
            /\ SubSeq(ret.text, last, last + Len(S_LenPrefix) - 1) = S_LenPrefix
            /\ count # <<>>
            /\ \A i \in DOMAIN count :
                  count[i] \in {"0", "1", "2", "3", "4", "5", "6", "7", "8", "9"}
            /\ ParseDecimal(count) = Len(ListedRecords)

\* C8's case: pyenvlst without a worktree, conda not launched: no record.
C8_Witness ==
    /\ Listed
    /\ ListedRecords = <<>>
    /\ ret.text = S_EmptyRender

Contains(s, part) ==
    \E i \in 1..(Len(s) - Len(part) + 1) :
        SubSeq(s, i, i + Len(part) - 1) = part

\* C9: a command name other than pyenvcur, pyenvlst and pyenvselect gives,
\* from run_slash_command and from complete_slash_command_argument, an
\* error whose message holds the name, no text, no section, no completion,
\* and no discovery, whatever the arguments and the worktree.
C9_UnknownCommandFails ==
    (op \in {"run_slash_command", "complete_slash_command_argument"}
        /\ arg.command \notin KnownCommands)
        => /\ ~ret.ok
           /\ Contains(ret.err, arg.command)
           /\ StartsWith(ret.err, S_UnknownPrefix)
           /\ ret.text = <<>>
           /\ ret.sections = <<>>
           /\ ret.completions = <<>>
           /\ ~ret.discovered

\* C9's case: run_slash_command of "pyenvlst2" with arguments and a
\* worktree.
C9_Witness ==
    /\ op = "run_slash_command"
    /\ arg.command = S_pyenvlst \o <<"2">>
    /\ arg.args # <<>>
    /\ arg.worktree.some
    /\ ~ret.ok
============================================================================
